---------------------------- MODULE Spec2Model ----------------------------
(***************************************************************************)
(* ASRS rack, slot allocator, path planner and operation sequencer of      *)
(* game_3.py (classes Box, Rack, ASRSWindow and the module functions       *)
(* a_star_pathfinding, save_game_state, load_game_state, log_operation,    *)
(* update_maintenance_cycles).                                             *)
(*                                                                         *)
(* Python values are encoded as follows.  A grid cell is a box identifier  *)
(* or None.  An optional value (pending_box, pending_position, the         *)
(* allocator's result, the snapshot file) is the empty tuple for None and  *)
(* otherwise the value itself (a position <<row, col>>) or a one-element   *)
(* tuple holding it.  Dictionaries are functions whose DOMAIN is the key   *)
(* set.                                                                    *)
(***************************************************************************)
EXTENDS Integers, Sequences, FiniteSets, TLC

(***************************************************************************)
(* Bounds of the model.  The program runs a 20 x 20 grid; the model runs   *)
(* the same code on a small grid and lets the identifier counter grow up   *)
(* to MaxBoxId.                                                            *)
(***************************************************************************)
GRID_ROWS == 3
GRID_COLS == 3
MaxBoxId == 3
MaxFaults == 1
MaxDistance == 38
MaxCycles == 6

None == 0

ORIGIN_ROW == GRID_ROWS - 1
ORIGIN_COL == 0

\* the box_models table holds two models: model 1 is 1 x 1, model 2 has
\* length 1 and width 2 (one column, two rows)
ModelIds == {1, 2}

\* SELECT length, width FROM box_models WHERE id = model_id
get_model_dimensions(model_id) ==
    CASE model_id = 1 -> <<1, 1>>
      [] model_id = 2 -> <<1, 2>>

\* Box(length, width, box_id=None, model_id=None)
Box(length, width, box_id, model_id) ==
    [length |-> length, width |-> width, box_id |-> box_id, model_id |-> model_id]

Cells == (0 .. GRID_ROWS - 1) \X (0 .. GRID_COLS - 1)

\* Rack(rows, cols)
Rack ==
    [grid          |-> [cell \in Cells |-> None],
     boxes         |-> << >>,
     box_positions |-> << >>,
     next_box_id   |-> 1,
     box_order     |-> << >>]

\* Python list indexing: a negative index counts from the end
PyIndex(i, n) == IF i < 0 THEN i + n ELSE i

\* self.grid[r][c]
GridAt(g, r, c) == g[<<PyIndex(r, GRID_ROWS), PyIndex(c, GRID_COLS)>>]

\* the cells visited by "for r in range(start_row, end_row): for c in range(start_col, end_col)"
RangeCells(start_row, start_col, end_row, end_col) ==
    {<<PyIndex(r, GRID_ROWS), PyIndex(c, GRID_COLS)>> :
        r \in start_row .. end_row - 1, c \in start_col .. end_col - 1}

can_place_box(rk, box, start_row, start_col) ==
    LET end_row == start_row + box.width
        end_col == start_col + box.length
    IN  IF end_row > GRID_ROWS \/ end_col > GRID_COLS
        THEN FALSE
        ELSE \A r \in start_row .. end_row - 1 :
               \A c \in start_col .. end_col - 1 : GridAt(rk.grid, r, c) = None

\* dict with key k set to v
DictPut(d, k, v) == [x \in DOMAIN d \cup {k} |-> IF x = k THEN v ELSE d[x]]

\* dict with key k deleted
DictDel(d, k) == [x \in DOMAIN d \ {k} |-> d[x]]

\* place_box handing out the smallest identifier not in use
place_box_reuses_id(rk, box, start_row, start_col) ==
    IF ~can_place_box(rk, box, start_row, start_col)
    THEN rk
    ELSE LET id      == CHOOSE i \in 1 .. rk.next_box_id :
                            /\ i \notin DOMAIN rk.boxes
                            /\ \A j \in 1 .. i - 1 : j \in DOMAIN rk.boxes
             end_row == start_row + box.width
             end_col == start_col + box.length
             marked  == RangeCells(start_row, start_col, end_row, end_col)
         IN  [grid          |-> [cell \in Cells |->
                                   IF cell \in marked THEN id ELSE rk.grid[cell]],
              boxes         |-> DictPut(rk.boxes, id, [box EXCEPT !.box_id = id]),
              box_positions |-> DictPut(rk.box_positions, id, <<start_row, start_col>>),
              next_box_id   |-> IF id = rk.next_box_id THEN id + 1 ELSE rk.next_box_id,
              box_order     |-> Append(rk.box_order, id)]

\* place_box taking the next identifier before it tests can_place_box
place_box_counts_first(rk, box, start_row, start_col) ==
    IF ~can_place_box(rk, box, start_row, start_col)
    THEN [rk EXCEPT !.next_box_id = rk.next_box_id + 1]
    ELSE LET id      == rk.next_box_id
             end_row == start_row + box.width
             end_col == start_col + box.length
             marked  == RangeCells(start_row, start_col, end_row, end_col)
         IN  [grid          |-> [cell \in Cells |->
                                   IF cell \in marked THEN id ELSE rk.grid[cell]],
              boxes         |-> DictPut(rk.boxes, id, [box EXCEPT !.box_id = id]),
              box_positions |-> DictPut(rk.box_positions, id, <<start_row, start_col>>),
              next_box_id   |-> rk.next_box_id + 1,
              box_order     |-> Append(rk.box_order, id)]

\* the rack after place_box(box, start_row, start_col); the call returns
\* can_place_box(box, start_row, start_col)
place_box(rk, box, start_row, start_col) ==
    IF ~can_place_box(rk, box, start_row, start_col)
    THEN rk
    ELSE LET id      == rk.next_box_id
             end_row == start_row + box.width
             end_col == start_col + box.length
             marked  == RangeCells(start_row, start_col, end_row, end_col)
         IN  [grid          |-> [cell \in Cells |->
                                   IF cell \in marked THEN id ELSE rk.grid[cell]],
              boxes         |-> DictPut(rk.boxes, id, [box EXCEPT !.box_id = id]),
              box_positions |-> DictPut(rk.box_positions, id, <<start_row, start_col>>),
              next_box_id   |-> rk.next_box_id + 1,
              box_order     |-> Append(rk.box_order, id)]

\* the box argument after place_box(box, start_row, start_col): the call
\* sets box.box_id only past the can_place_box test
place_box_argument(rk, box, start_row, start_col) ==
    IF ~can_place_box(rk, box, start_row, start_col)
    THEN box
    ELSE [box EXCEPT !.box_id = rk.next_box_id]

\* list.pop() in place of list.remove(x): drops the last element
ListPop(s, x) == SubSeq(s, 1, Len(s) - 1)

\* list.remove(x): drops the first occurrence of x
RECURSIVE ListRemove(_, _)
ListRemove(s, x) ==
    IF s = << >> THEN << >>
    ELSE IF Head(s) = x THEN Tail(s)
    ELSE <<Head(s)>> \o ListRemove(Tail(s), x)

\* remove_box without "del self.box_positions[box_id]"
remove_box_keeps_position(rk, box_id) ==
    IF box_id \notin DOMAIN rk.boxes
    THEN rk
    ELSE LET pos     == rk.box_positions[box_id]
             box     == rk.boxes[box_id]
             end_row == pos[1] + box.width
             end_col == pos[2] + box.length
             cleared == RangeCells(pos[1], pos[2], end_row, end_col)
         IN  [grid          |-> [cell \in Cells |->
                                   IF cell \in cleared THEN None ELSE rk.grid[cell]],
              boxes         |-> DictDel(rk.boxes, box_id),
              box_positions |-> rk.box_positions,
              next_box_id   |-> rk.next_box_id,
              box_order     |-> ListRemove(rk.box_order, box_id)]

\* remove_box clearing the anchor cell only
remove_box_clears_anchor_only(rk, box_id) ==
    IF box_id \notin DOMAIN rk.boxes
    THEN rk
    ELSE LET pos     == rk.box_positions[box_id]
             cleared == RangeCells(pos[1], pos[2], pos[1] + 1, pos[2] + 1)
         IN  [grid          |-> [cell \in Cells |->
                                   IF cell \in cleared THEN None ELSE rk.grid[cell]],
              boxes         |-> DictDel(rk.boxes, box_id),
              box_positions |-> DictDel(rk.box_positions, box_id),
              next_box_id   |-> rk.next_box_id,
              box_order     |-> ListRemove(rk.box_order, box_id)]

\* remove_box that, for an identifier not stored, still takes an entry off
\* the order sequence
remove_box_unknown_pops(rk, box_id) ==
    IF box_id \notin DOMAIN rk.boxes
    THEN [rk EXCEPT !.box_order = ListPop(rk.box_order, box_id)]
    ELSE LET pos     == rk.box_positions[box_id]
             box     == rk.boxes[box_id]
             end_row == pos[1] + box.width
             end_col == pos[2] + box.length
             cleared == RangeCells(pos[1], pos[2], end_row, end_col)
         IN  [grid          |-> [cell \in Cells |->
                                   IF cell \in cleared THEN None ELSE rk.grid[cell]],
              boxes         |-> DictDel(rk.boxes, box_id),
              box_positions |-> DictDel(rk.box_positions, box_id),
              next_box_id   |-> rk.next_box_id,
              box_order     |-> ListRemove(rk.box_order, box_id)]

\* the rack after remove_box(box_id); the call returns box_id in self.boxes
remove_box(rk, box_id) ==
    IF box_id \notin DOMAIN rk.boxes
    THEN rk
    ELSE LET pos     == rk.box_positions[box_id]
             box     == rk.boxes[box_id]
             end_row == pos[1] + box.width
             end_col == pos[2] + box.length
             cleared == RangeCells(pos[1], pos[2], end_row, end_col)
         IN  [grid          |-> [cell \in Cells |->
                                   IF cell \in cleared THEN None ELSE rk.grid[cell]],
              boxes         |-> DictDel(rk.boxes, box_id),
              box_positions |-> DictDel(rk.box_positions, box_id),
              next_box_id   |-> rk.next_box_id,
              box_order     |-> ListRemove(rk.box_order, box_id)]

\* the selection taking the first identifier of the order sequence
get_lifo_box_oldest(rk) ==
    IF rk.box_order = << >> THEN None ELSE rk.box_order[1]

get_lifo_box(rk) ==
    IF rk.box_order = << >> THEN None ELSE rk.box_order[Len(rk.box_order)]

get_fifo_box(rk) ==
    IF rk.box_order = << >> THEN None ELSE rk.box_order[1]

\* Manhattan distance in place of the Euclidean one
ManhattanDistance(row, col, origin_row, origin_col) ==
    (IF row < origin_row THEN origin_row - row ELSE row - origin_row)
      + (IF col < origin_col THEN origin_col - col ELSE col - origin_col)

\* squared Euclidean distance; math.sqrt is strictly increasing on these
\* integers, so "distance < min_distance" compares the squares
Distance2(row, col, origin_row, origin_col) ==
    (row - origin_row) * (row - origin_row) + (col - origin_col) * (col - origin_col)

\* the scan with "distance <= min_distance": the last of several anchors at
\* the minimum distance wins
RECURSIVE ScanAnchorsLastTie(_, _, _, _, _, _, _)
ScanAnchorsLastTie(rk, box, origin_row, origin_col, k, closest_location, min_distance) ==
    LET nrows == GRID_ROWS - box.width + 1
        ncols == GRID_COLS - box.length + 1
    IN  IF nrows <= 0 \/ ncols <= 0 \/ k >= nrows * ncols
        THEN closest_location
        ELSE LET row      == k \div ncols
                 col      == k % ncols
                 distance == Distance2(row, col, origin_row, origin_col)
             IN  IF can_place_box(rk, box, row, col)
                    /\ (closest_location = << >> \/ distance <= min_distance)
                 THEN ScanAnchorsLastTie(rk, box, origin_row, origin_col, k + 1,
                                         <<row, col>>, distance)
                 ELSE ScanAnchorsLastTie(rk, box, origin_row, origin_col, k + 1,
                                         closest_location, min_distance)

\* the scan of find_closest_available_location from the k-th anchor of the
\* row-major order on, with the closest location and distance found so far
RECURSIVE ScanAnchors(_, _, _, _, _, _, _)
ScanAnchors(rk, box, origin_row, origin_col, k, closest_location, min_distance) ==
    LET nrows == GRID_ROWS - box.width + 1
        ncols == GRID_COLS - box.length + 1
    IN  IF nrows <= 0 \/ ncols <= 0 \/ k >= nrows * ncols
        THEN closest_location
        ELSE LET row      == k \div ncols
                 col      == k % ncols
                 distance == Distance2(row, col, origin_row, origin_col)
             IN  IF can_place_box(rk, box, row, col)
                    /\ (closest_location = << >> \/ distance < min_distance)
                 THEN ScanAnchors(rk, box, origin_row, origin_col, k + 1,
                                  <<row, col>>, distance)
                 ELSE ScanAnchors(rk, box, origin_row, origin_col, k + 1,
                                  closest_location, min_distance)

\* the allocator scanning without regard to the cells in use: the closest
\* anchor of the empty rack
find_closest_ignoring_occupancy(rk, box, origin_row, origin_col) ==
    ScanAnchors(Rack, box, origin_row, origin_col, 0, << >>, 0)

find_closest_available_location(rk, box, origin_row, origin_col) ==
    ScanAnchors(rk, box, origin_row, origin_col, 0, << >>, 0)


\* model-filtered selection: scan box_order from the end / from the start
RECURSIVE get_lifo_box_by_model(_, _)
get_lifo_box_by_model(rk, model_id) ==
    LET order == rk.box_order
        n     == Len(order)
    IN  IF n = 0 THEN None
        ELSE IF rk.boxes[order[n]].model_id = model_id THEN order[n]
        ELSE get_lifo_box_by_model([rk EXCEPT !.box_order = SubSeq(order, 1, n - 1)],
                                   model_id)

\* the model-filtered FIFO selection without the model test
get_fifo_box_any_model(rk, model_id) == get_fifo_box(rk)

RECURSIVE get_fifo_box_by_model(_, _)
get_fifo_box_by_model(rk, model_id) ==
    LET order == rk.box_order
    IN  IF order = << >> THEN None
        ELSE IF rk.boxes[Head(order)].model_id = model_id THEN Head(order)
        ELSE get_fifo_box_by_model([rk EXCEPT !.box_order = Tail(order)], model_id)

get_boxes_by_model(rk, model_id) ==
    SelectSeq(rk.box_order, LAMBDA box_id : rk.boxes[box_id].model_id = model_id)

(***************************************************************************)
(* Path planner                                                            *)
(***************************************************************************)
Abs(x) == IF x < 0 THEN -x ELSE x

heuristic(a, b) == Abs(a[1] - b[1]) + Abs(a[2] - b[2])

\* order of the heap entries (f, (row, col)): Python tuple comparison
HeapLess(x, y) ==
    \/ x[1] < y[1]
    \/ x[1] = y[1] /\ x[2][1] < y[2][1]
    \/ x[1] = y[1] /\ x[2][1] = y[2][1] /\ x[2][2] < y[2][2]

\* [up, down, left, right] of current
Neighbors(current) ==
    << <<current[1] - 1, current[2]>>,
       <<current[1] + 1, current[2]>>,
       <<current[1], current[2] - 1>>,
       <<current[1], current[2] + 1>> >>

\* the "for neighbor in neighbors" loop from the i-th neighbour on; st is
\* the record of open_list, came_from and g_score
RECURSIVE RelaxNeighbors(_, _, _, _, _)
RelaxNeighbors(grid, current, goal, i, st) ==
    IF i > 4 THEN st
    ELSE LET neighbor    == Neighbors(current)[i]
             row         == neighbor[1]
             col         == neighbor[2]
             tentative_g == st.g_score[current] + 1
         IN  IF ~(0 <= row /\ row < GRID_ROWS /\ 0 <= col /\ col < GRID_COLS)
             THEN RelaxNeighbors(grid, current, goal, i + 1, st)
             ELSE IF neighbor \notin DOMAIN st.g_score
                     \/ tentative_g < st.g_score[neighbor]
             THEN RelaxNeighbors(grid, current, goal, i + 1,
                     [open_list |-> st.open_list \cup
                                      {<<tentative_g + heuristic(neighbor, goal), neighbor>>},
                      came_from |-> DictPut(st.came_from, neighbor, current),
                      g_score   |-> DictPut(st.g_score, neighbor, tentative_g)])
             ELSE RelaxNeighbors(grid, current, goal, i + 1, st)

\* path = [current]; while current in came_from: ...; path.reverse()
RECURSIVE ReconstructPath(_, _)
ReconstructPath(came_from, current) ==
    IF current \in DOMAIN came_from
    THEN Append(ReconstructPath(came_from, came_from[current]), current)
    ELSE <<current>>

\* the search loop returning the reconstructed path with its starting cell,
\* "return path" in place of "return path[1:]"
RECURSIVE SearchLoopKeepsStart(_, _, _)
SearchLoopKeepsStart(grid, goal, st) ==
    IF st.open_list = {} THEN << >>
    ELSE LET top     == CHOOSE x \in st.open_list :
                            \A y \in st.open_list \ {x} : HeapLess(x, y)
             current == top[2]
             popped  == [st EXCEPT !.open_list = st.open_list \ {top}]
         IN  IF current = goal
             THEN ReconstructPath(st.came_from, current)
             ELSE SearchLoopKeepsStart(grid, goal,
                                       RelaxNeighbors(grid, current, goal, 1, popped))

\* the "while open_list" loop
RECURSIVE SearchLoop(_, _, _)
SearchLoop(grid, goal, st) ==
    IF st.open_list = {} THEN << >>
    ELSE LET top     == CHOOSE x \in st.open_list :
                            \A y \in st.open_list \ {x} : HeapLess(x, y)
             current == top[2]
             popped  == [st EXCEPT !.open_list = st.open_list \ {top}]
         IN  IF current = goal
             THEN Tail(ReconstructPath(st.came_from, current))
             ELSE SearchLoop(grid, goal, RelaxNeighbors(grid, current, goal, 1, popped))

a_star_pathfinding(grid, start, goal) ==
    SearchLoop(grid, goal,
               [open_list |-> {<<0, start>>},
                came_from |-> << >>,
                g_score   |-> DictPut(<< >>, start, 0)])

(***************************************************************************)
(* State                                                                   *)
(*   rack .. pending_model_id : the fields of ASRSWindow                   *)
(*   timer_active             : animation_timer.isActive()                 *)
(*   db_calls                 : the persistence functions called by the    *)
(*                              last step                                  *)
(*   logged, maint            : the arguments of the log_operation and the *)
(*                              update_maintenance_cycles call of the last *)
(*                              step, empty when it made none              *)
(*   db_failed                : the persistence calls of the last tick     *)
(*                              that failed: each of them catches its own  *)
(*                              exception, logs it and returns             *)
(*   response                 : the message of the last step to the user   *)
(*                              or to the log                              *)
(*   legs                     : the lengths of the paths planned for the   *)
(*                              operation in flight (outbound, then        *)
(*                              return); empty when none is in flight      *)
(*   result                   : the last direct call of a Rack method and  *)
(*                              its return value                           *)
(*   faults                   : the number of ticks that raised an         *)
(*                              exception so far, capped by MaxFaults      *)
(*   maintenance_info         : the row of the table maintenance_info, in  *)
(*                              the specification of the database          *)
(*                              functions on their own; the specifications *)
(*                              of the window keep the calls only          *)
(***************************************************************************)
VARIABLES rack, trolley_row, trolley_col, trolley_path, is_animating,
          operation_mode, animation_cell_index, animation_cells, pending_box,
          pending_position, retrieving_box_id, distance_traveled,
          pending_model_id, timer_active, db_calls, logged, maint, db_failed,
          response, legs, result, faults, maintenance_info

window == <<trolley_row, trolley_col, trolley_path, is_animating,
            operation_mode, animation_cell_index, animation_cells, pending_box,
            pending_position, retrieving_box_id, distance_traveled,
            pending_model_id, timer_active>>

database == <<db_calls, logged, maint, db_failed>>

vars == <<rack, window, database, response, legs, result, faults,
          maintenance_info>>

\* init_database: the row inserted into maintenance_info; clear_all_database
\* writes the same values
NewMaintenanceInfo ==
    [cycles_today |-> 0, cycles_total |-> 0, cycles_till_check |-> 1000]

\* int(x / y) of Python for y > 0: the quotient truncated towards zero
IntDiv(x, y) == IF x >= 0 THEN x \div y ELSE -((-x) \div y)

\* the update adding floor(distance / 10), without the lower bound of 1
update_maintenance_cycles_unbounded(info, distance) ==
    LET cycles == IntDiv(distance, 10)
    IN  [cycles_today      |-> info.cycles_today + cycles,
         cycles_total      |-> info.cycles_total + cycles,
         cycles_till_check |-> info.cycles_till_check - cycles]

\* update_maintenance_cycles(distance_traveled), when the UPDATE is committed
update_maintenance_cycles(info, distance) ==
    LET q      == IntDiv(distance, 10)
        cycles == IF 1 >= q THEN 1 ELSE q
    IN  [cycles_today      |-> info.cycles_today + cycles,
         cycles_total      |-> info.cycles_total + cycles,
         cycles_till_check |-> info.cycles_till_check - cycles]

\* no persistence call in this step
NoDbCall ==
    /\ db_calls' = {}
    /\ logged' = << >>
    /\ maint' = << >>
    /\ db_failed' = {}

\* ASRSWindow.__init__ on the first start of the program: there is no
\* SAVE_FILE, so load_game_state() returns None and the rack is new
Init ==
    /\ rack = Rack
    /\ trolley_row = ORIGIN_ROW
    /\ trolley_col = ORIGIN_COL
    /\ trolley_path = << >>
    /\ is_animating = FALSE
    /\ operation_mode = "idle"
    /\ animation_cell_index = 0
    /\ animation_cells = << >>
    /\ pending_box = << >>
    /\ pending_position = << >>
    /\ retrieving_box_id = None
    /\ distance_traveled = 0
    /\ pending_model_id = None
    /\ timer_active = FALSE
    /\ db_calls = {}
    /\ logged = << >>
    /\ maint = << >>
    /\ db_failed = {}
    /\ response = "started"
    /\ legs = << >>
    /\ result = [call |-> "none", ret |-> FALSE]
    /\ faults = 0
    /\ maintenance_info = NewMaintenanceInfo

\* the footprint cells in the order the animation marks them
RECURSIVE FootprintList(_, _, _, _, _)
FootprintList(start_row, start_col, width, length, k) ==
    IF k >= width * length THEN << >>
    ELSE <<<<start_row + (k \div length), start_col + (k % length)>>>>
         \o FootprintList(start_row, start_col, width, length, k + 1)

start_storage_animation(box, position, path, distance) ==
    /\ is_animating' = TRUE
    /\ operation_mode' = "storing_moving"
    /\ pending_box' = <<box>>
    /\ pending_position' = position
    /\ trolley_path' = path
    /\ animation_cell_index' = 0
    /\ distance_traveled' = distance
    /\ timer_active' = TRUE

\* the slot taken to be the origin cell, whatever the rack holds
StoreTargetAtOrigin(rk, model_id) == <<ORIGIN_ROW, ORIGIN_COL>>

\* the slot add_box_by_model asks the allocator for: the location closest
\* to the origin cell for a new box of the model's dimensions
StoreTarget(rk, model_id) ==
    LET dimensions == get_model_dimensions(model_id)
        box        == Box(dimensions[1], dimensions[2], None, model_id)
    IN  find_closest_available_location(rk, box, ORIGIN_ROW, ORIGIN_COL)

\* add_box_by_model without the "if self.is_animating: return" guard
add_box_by_model_unguarded(model_id) ==
    /\ NoDbCall
    /\ UNCHANGED <<rack, result>>
    /\ LET target == StoreTarget(rack, model_id)
       IN  IF target = << >>
           THEN /\ response' = "No Space"
                /\ UNCHANGED <<window, legs>>
           ELSE LET dimensions == get_model_dimensions(model_id)
                    box        == Box(dimensions[1], dimensions[2], None, model_id)
                    path       == a_star_pathfinding(rack.grid,
                                      <<trolley_row, trolley_col>>, target)
                IN  /\ pending_model_id' = model_id
                    /\ start_storage_animation(box, target, path, Len(path))
                    /\ response' = "STORAGE"
                    /\ legs' = <<Len(path)>>
                    /\ UNCHANGED <<trolley_row, trolley_col, animation_cells,
                                   retrieving_box_id>>

\* the "Add Box" button with model_id selected in the model combo
add_box_by_model(model_id) ==
    /\ NoDbCall
    /\ UNCHANGED <<rack, result>>
    /\ IF is_animating
       THEN /\ response' = "rejected: animation in progress"
            /\ UNCHANGED <<window, legs>>
       ELSE LET dimensions == get_model_dimensions(model_id)
                box        == Box(dimensions[1], dimensions[2], None, model_id)
                target     == StoreTarget(rack, model_id)
            IN  IF target = << >>
                THEN /\ response' = "No Space"
                     /\ UNCHANGED <<window, legs>>
                ELSE LET path == a_star_pathfinding(rack.grid,
                                     <<trolley_row, trolley_col>>, target)
                     IN  /\ pending_model_id' = model_id
                         /\ start_storage_animation(box, target, path, Len(path))
                         /\ response' = "STORAGE"
                         /\ legs' = <<Len(path)>>
                         /\ UNCHANGED <<trolley_row, trolley_col, animation_cells,
                                        retrieving_box_id>>

\* the identifier counter is capped: once it has passed MaxBoxId a request
\* is taken only if it starts no further store (the trolley is busy, or the
\* allocator finds no slot)
AddBox ==
    \E model_id \in ModelIds :
        /\ \/ is_animating
           \/ rack.next_box_id <= MaxBoxId
           \/ StoreTarget(rack, model_id) = << >>
        /\ add_box_by_model(model_id)
        /\ UNCHANGED <<faults, maintenance_info>>

start_retrieval_animation(box_id, position, path) ==
    /\ is_animating' = TRUE
    /\ operation_mode' = "retrieving_moving"
    /\ retrieving_box_id' = box_id
    /\ pending_position' = position
    /\ trolley_path' = path
    /\ animation_cell_index' = 0
    /\ distance_traveled' = Len(path)
    /\ timer_active' = TRUE

\* the selection falling back to the unfiltered one when no stored box has
\* the filtered model
SelectedBoxFallsBack(mode, selected_model_id, id_input) ==
    CASE mode = "LIFO" -> IF selected_model_id = None
                             \/ get_lifo_box_by_model(rack, selected_model_id) = None
                          THEN get_lifo_box(rack)
                          ELSE get_lifo_box_by_model(rack, selected_model_id)
      [] mode = "FIFO" -> IF selected_model_id = None
                             \/ get_fifo_box_by_model(rack, selected_model_id) = None
                          THEN get_fifo_box(rack)
                          ELSE get_fifo_box_by_model(rack, selected_model_id)
      [] mode = "BY ID" -> id_input[1]

\* the box the retrieval mode selects; id_input is the parsed text of the
\* Box ID field: << >> when int() raises ValueError, else <<n>>
SelectedBox(mode, selected_model_id, id_input) ==
    CASE mode = "LIFO" -> IF selected_model_id = None
                          THEN get_lifo_box(rack)
                          ELSE get_lifo_box_by_model(rack, selected_model_id)
      [] mode = "FIFO" -> IF selected_model_id = None
                          THEN get_fifo_box(rack)
                          ELSE get_fifo_box_by_model(rack, selected_model_id)
      [] mode = "BY ID" -> id_input[1]

\* the "Retrieve Box" button
retrieve_box(mode, selected_model_id, id_input) ==
    /\ NoDbCall
    /\ UNCHANGED <<rack, result>>
    /\ IF is_animating
       THEN /\ response' = "rejected: animation in progress"
            /\ UNCHANGED <<window, legs>>
       ELSE IF Cardinality(DOMAIN rack.boxes) = 0
       THEN /\ response' = "no boxes in rack"
            /\ UNCHANGED <<window, legs>>
       ELSE IF mode = "BY ID" /\ id_input = << >>
       THEN /\ response' = "Invalid ID"
            /\ UNCHANGED <<window, legs>>
       ELSE IF mode = "BY ID" /\ id_input[1] \notin DOMAIN rack.box_positions
       THEN /\ response' = "Not Found"
            /\ UNCHANGED <<window, legs>>
       ELSE LET box_id == SelectedBox(mode, selected_model_id, id_input)
            IN  IF box_id = None
                THEN /\ response' = "No Box"
                     /\ UNCHANGED <<window, legs>>
                ELSE LET target == rack.box_positions[box_id]
                         path   == a_star_pathfinding(rack.grid,
                                       <<trolley_row, trolley_col>>, target)
                     IN  /\ start_retrieval_animation(box_id, target, path)
                         /\ response' = "RETRIEVAL"
                         /\ legs' = <<Len(path)>>
                         /\ UNCHANGED <<trolley_row, trolley_col, animation_cells,
                                        pending_box, pending_model_id>>

\* the texts tried in the Box ID field: not a number, or one of these numbers
IdInputs == {<< >>} \cup {<<n>> : n \in -1 .. MaxBoxId + 1}

\* the Box ID field is cleared and disabled unless the mode is BY ID, and
\* the BY ID branch does not use the model filter
Retrieve ==
    /\ \/ \E mode \in {"LIFO", "FIFO"}, selected_model_id \in {None} \cup ModelIds :
             retrieve_box(mode, selected_model_id, << >>)
       \/ \E id_input \in IdInputs :
             retrieve_box("BY ID", None, id_input)
    /\ UNCHANGED <<faults, maintenance_info>>

\* find_and_move_to_product / move_trolley_to_cell(row, col)
move_trolley_to_cell(row, col) ==
    /\ NoDbCall
    /\ UNCHANGED <<rack, result>>
    /\ IF is_animating
       THEN /\ response' = "Busy"
            /\ UNCHANGED <<window, legs>>
       ELSE IF <<row, col>> = <<trolley_row, trolley_col>>
       THEN \* the nudge reads self.grid.cols; ASRSWindow has no attribute grid:
            \* AttributeError, caught by the handler's except branch
            /\ response' = "Error in move_trolley_to_cell"
            /\ UNCHANGED <<window, legs>>
       ELSE LET path == a_star_pathfinding(rack.grid,
                            <<trolley_row, trolley_col>>, <<row, col>>)
            IN  IF path = << >>
                THEN /\ response' = "No Path"
                     /\ UNCHANGED <<window, legs>>
                ELSE /\ trolley_path' = path
                     /\ animation_cell_index' = 0
                     /\ distance_traveled' = Len(path)
                     /\ operation_mode' = "goto_pcode"
                     /\ is_animating' = TRUE
                     /\ timer_active' = TRUE
                     /\ response' = "Moving"
                     /\ legs' = <<Len(path)>>
                     /\ UNCHANGED <<trolley_row, trolley_col, animation_cells,
                                    pending_box, pending_position,
                                    retrieving_box_id, pending_model_id>>

MoveTrolley ==
    /\ \E cell \in Cells : move_trolley_to_cell(cell[1], cell[2])
    /\ UNCHANGED <<faults, maintenance_info>>

\* the step reading the first cell of the path without taking it off
PopStepKeepsPath ==
    /\ trolley_row' = trolley_path[1][1]
    /\ trolley_col' = trolley_path[1][2]
    /\ trolley_path' = trolley_path

\* next_row, next_col = self.trolley_path.pop(0)
PopStep ==
    /\ trolley_row' = trolley_path[1][1]
    /\ trolley_col' = trolley_path[1][2]
    /\ trolley_path' = Tail(trolley_path)

\* animate, branch operation_mode == 'storing_moving'
animate_storing_moving ==
    /\ NoDbCall
    /\ UNCHANGED <<rack, legs>>
    /\ IF trolley_path # << >>
       THEN /\ PopStep
            /\ IF Tail(trolley_path) = << >>
               THEN /\ operation_mode' = "storing_placing"
                    /\ animation_cell_index' = 0
                    /\ animation_cells' =
                          FootprintList(pending_position[1], pending_position[2],
                                        pending_box[1].width, pending_box[1].length, 0)
                    /\ response' = "Placing..."
               ELSE /\ response' = ""
                    /\ UNCHANGED <<operation_mode, animation_cell_index,
                                   animation_cells>>
            /\ UNCHANGED <<is_animating, pending_box, pending_position,
                           retrieving_box_id, distance_traveled, pending_model_id,
                           timer_active>>
       ELSE /\ response' = ""
            /\ UNCHANGED window

\* animate, branch operation_mode == 'storing_placing'
animate_storing_placing ==
    IF animation_cell_index < Len(animation_cells)
    THEN /\ animation_cell_index' = animation_cell_index + 1
         /\ NoDbCall
         /\ response' = ""
         /\ UNCHANGED <<rack, legs, trolley_row, trolley_col, trolley_path,
                        is_animating, operation_mode, animation_cells, pending_box,
                        pending_position, retrieving_box_id, distance_traveled,
                        pending_model_id, timer_active>>
    ELSE LET path   == a_star_pathfinding(rack'.grid, <<trolley_row, trolley_col>>,
                                          <<ORIGIN_ROW, ORIGIN_COL>>)
         IN  /\ rack' = place_box(rack, pending_box[1],
                                  pending_position[1], pending_position[2])
             /\ pending_box' =
                   <<place_box_argument(rack, pending_box[1],
                                        pending_position[1], pending_position[2])>>
             /\ db_calls' = {"add_box_to_db"}
             /\ logged' = << >>
             /\ maint' = << >>
             /\ db_failed' \in SUBSET {"add_box_to_db"}
             /\ operation_mode' = "returning"
             /\ trolley_path' = path
             /\ legs' = Append(legs, Len(path))
             /\ response' = "Returning..."
             /\ UNCHANGED <<trolley_row, trolley_col, is_animating,
                            animation_cell_index, animation_cells, pending_position,
                            retrieving_box_id, distance_traveled, pending_model_id,
                            timer_active>>

\* animate, branch operation_mode == 'retrieving_moving'
animate_retrieving_moving ==
    /\ NoDbCall
    /\ UNCHANGED <<rack, legs>>
    /\ IF trolley_path # << >>
       THEN /\ PopStep
            /\ IF Tail(trolley_path) = << >>
               THEN /\ operation_mode' = "retrieving_picking"
                    /\ animation_cell_index' = 0
                    /\ animation_cells' =
                          FootprintList(pending_position[1], pending_position[2],
                                        rack.boxes[retrieving_box_id].width,
                                        rack.boxes[retrieving_box_id].length, 0)
                    /\ response' = "Picking..."
               ELSE /\ response' = ""
                    /\ UNCHANGED <<operation_mode, animation_cell_index,
                                   animation_cells>>
            /\ UNCHANGED <<is_animating, pending_box, pending_position,
                           retrieving_box_id, distance_traveled, pending_model_id,
                           timer_active>>
       ELSE /\ response' = ""
            /\ UNCHANGED window

\* the picking branch clearing the grid cell by cell, one cell each marking
\* tick, before the box is removed
animate_retrieving_picking_clears_per_cell ==
    /\ NoDbCall
    /\ IF animation_cell_index < Len(animation_cells)
       THEN /\ animation_cell_index' = animation_cell_index + 1
            /\ rack' = [rack EXCEPT
                           !.grid[animation_cells[animation_cell_index + 1]] = None]
            /\ response' = ""
            /\ UNCHANGED <<legs, trolley_row, trolley_col, trolley_path,
                           is_animating, operation_mode, animation_cells, pending_box,
                           pending_position, retrieving_box_id, distance_traveled,
                           pending_model_id, timer_active>>
       ELSE LET path == a_star_pathfinding(rack'.grid, <<trolley_row, trolley_col>>,
                                           <<ORIGIN_ROW, ORIGIN_COL>>)
            IN  /\ rack' = remove_box(rack, retrieving_box_id)
                /\ operation_mode' = "returning"
                /\ trolley_path' = path
                /\ legs' = Append(legs, Len(path))
                /\ response' = "Returning..."
                /\ UNCHANGED <<trolley_row, trolley_col, is_animating,
                               animation_cell_index, animation_cells, pending_box,
                               pending_position, retrieving_box_id, distance_traveled,
                               pending_model_id, timer_active>>

\* animate, branch operation_mode == 'retrieving_picking'
animate_retrieving_picking ==
    /\ NoDbCall
    /\ IF animation_cell_index < Len(animation_cells)
       THEN /\ animation_cell_index' = animation_cell_index + 1
            /\ response' = ""
            /\ UNCHANGED <<rack, legs, trolley_row, trolley_col, trolley_path,
                           is_animating, operation_mode, animation_cells, pending_box,
                           pending_position, retrieving_box_id, distance_traveled,
                           pending_model_id, timer_active>>
       ELSE LET path == a_star_pathfinding(rack'.grid, <<trolley_row, trolley_col>>,
                                           <<ORIGIN_ROW, ORIGIN_COL>>)
            IN  /\ rack' = remove_box(rack, retrieving_box_id)
                /\ operation_mode' = "returning"
                /\ trolley_path' = path
                /\ legs' = Append(legs, Len(path))
                /\ response' = "Returning..."
                /\ UNCHANGED <<trolley_row, trolley_col, is_animating,
                               animation_cell_index, animation_cells, pending_box,
                               pending_position, retrieving_box_id, distance_traveled,
                               pending_model_id, timer_active>>

\* the persistence calls of the finalization
FinalizationCalls == {"log_operation", "update_maintenance_cycles", "save_game_state"}

\* the finalization undoing the placement when a persistence call fails
finalize_operation_rolls_back(failed) ==
    /\ timer_active' = FALSE
    /\ is_animating' = FALSE
    /\ IF pending_box # << >>
       THEN /\ logged' = <<[box_id    |-> pending_box[1].box_id,
                            operation |-> "STORED",
                            distance  |-> distance_traveled]>>
            /\ response' = "stored"
            /\ pending_box' = << >>
            /\ rack' = IF failed = {}
                       THEN rack
                       ELSE remove_box(rack, pending_box[1].box_id)
            /\ UNCHANGED retrieving_box_id
       ELSE /\ logged' = <<[box_id    |-> retrieving_box_id,
                            operation |-> "RETRIEVED",
                            distance  |-> distance_traveled]>>
            /\ response' = "retrieved"
            /\ retrieving_box_id' = None
            /\ UNCHANGED <<pending_box, rack>>
    /\ maint' = <<distance_traveled>>
    /\ operation_mode' = "idle"
    /\ db_calls' = FinalizationCalls
    /\ db_failed' = failed
    /\ legs' = << >>

\* animate, branch 'returning', once the path is exhausted: the operation is
\* finalized; failed holds the persistence calls that fail
finalize_operation(failed) ==
    /\ timer_active' = FALSE
    /\ is_animating' = FALSE
    /\ IF pending_box # << >>
       THEN /\ logged' = <<[box_id    |-> pending_box[1].box_id,
                            operation |-> "STORED",
                            distance  |-> distance_traveled]>>
            /\ response' = "stored"
            /\ pending_box' = << >>
            /\ UNCHANGED retrieving_box_id
       ELSE /\ logged' = <<[box_id    |-> retrieving_box_id,
                            operation |-> "RETRIEVED",
                            distance  |-> distance_traveled]>>
            /\ response' = "retrieved"
            /\ retrieving_box_id' = None
            /\ UNCHANGED pending_box
    /\ maint' = <<distance_traveled>>
    /\ operation_mode' = "idle"
    /\ db_calls' = FinalizationCalls
    /\ db_failed' = failed
    /\ legs' = << >>
    /\ UNCHANGED rack

\* animate, branch operation_mode == 'returning'
animate_returning ==
    IF trolley_path # << >>
    THEN /\ PopStep
         /\ IF Tail(trolley_path) = << >>
            THEN \E failed \in SUBSET FinalizationCalls : finalize_operation(failed)
            ELSE /\ NoDbCall
                 /\ response' = ""
                 /\ UNCHANGED <<rack, timer_active, is_animating, pending_box,
                                retrieving_box_id, operation_mode, legs>>
         /\ UNCHANGED <<animation_cell_index, animation_cells, pending_position,
                        distance_traveled, pending_model_id>>
    ELSE /\ NoDbCall
         /\ response' = ""
         /\ UNCHANGED <<rack, window, legs>>

\* the relocation reaching its target without clearing the busy flag
animate_goto_pcode_stays_busy ==
    /\ NoDbCall
    /\ UNCHANGED rack
    /\ IF trolley_path # << >>
       THEN /\ PopStep
            /\ IF Tail(trolley_path) = << >>
               THEN /\ timer_active' = FALSE
                    /\ operation_mode' = "idle"
                    /\ legs' = << >>
                    /\ response' = "Arrived"
                    /\ UNCHANGED is_animating
               ELSE /\ response' = ""
                    /\ UNCHANGED <<timer_active, is_animating, operation_mode, legs>>
            /\ UNCHANGED <<animation_cell_index, animation_cells, pending_box,
                           pending_position, retrieving_box_id, distance_traveled,
                           pending_model_id>>
       ELSE /\ response' = ""
            /\ UNCHANGED <<window, legs>>

\* animate, branch operation_mode == 'goto_pcode'
animate_goto_pcode ==
    /\ NoDbCall
    /\ UNCHANGED rack
    /\ IF trolley_path # << >>
       THEN /\ PopStep
            /\ IF Tail(trolley_path) = << >>
               THEN /\ timer_active' = FALSE
                    /\ is_animating' = FALSE
                    /\ operation_mode' = "idle"
                    /\ legs' = << >>
                    /\ response' = "Arrived"
               ELSE /\ response' = ""
                    /\ UNCHANGED <<timer_active, is_animating, operation_mode, legs>>
            /\ UNCHANGED <<animation_cell_index, animation_cells, pending_box,
                           pending_position, retrieving_box_id, distance_traveled,
                           pending_model_id>>
       ELSE /\ response' = ""
            /\ UNCHANGED <<window, legs>>

\* one timeout of animation_timer
animate ==
    /\ UNCHANGED result
    /\ CASE operation_mode = "storing_moving"     -> animate_storing_moving
         [] operation_mode = "storing_placing"    -> animate_storing_placing
         [] operation_mode = "retrieving_moving"  -> animate_retrieving_moving
         [] operation_mode = "retrieving_picking" -> animate_retrieving_picking
         [] operation_mode = "returning"          -> animate_returning
         [] operation_mode = "goto_pcode"         -> animate_goto_pcode
         [] OTHER -> /\ NoDbCall
                     /\ response' = ""
                     /\ UNCHANGED <<rack, window, legs>>

Animate ==
    /\ timer_active
    /\ animate
    /\ UNCHANGED <<faults, maintenance_info>>

\* the handler stopping the timer but leaving the busy flag set
except_branch_keeps_busy ==
    /\ timer_active' = FALSE
    /\ is_animating' = is_animating
    /\ operation_mode' = "idle"
    /\ response' = "Animation Error"
    /\ legs' = << >>

\* animate, except branch (lines 1410-1422): the handler of an exception
\* raised anywhere in the tick
except_branch ==
    /\ timer_active' = FALSE
    /\ is_animating' = FALSE
    /\ operation_mode' = "idle"
    /\ response' = "Animation Error"
    /\ legs' = << >>

\* a tick of a moving phase in which update_grid_display raises after the
\* pop (lines 1292, 1329, 1366, 1396); on an empty path the branch makes no
\* call, so nothing can be raised
fault_moving ==
    /\ operation_mode \in {"storing_moving", "retrieving_moving", "returning",
                           "goto_pcode"}
    /\ trolley_path # << >>
    /\ PopStep
    /\ NoDbCall
    /\ UNCHANGED <<rack, animation_cell_index, animation_cells, pending_box,
                   pending_position, retrieving_box_id, distance_traveled,
                   pending_model_id>>

\* a marking tick of placing or picking in which table.item or setBackground
\* raises (lines 1309-1312, 1347-1350), before the index is incremented
fault_marking ==
    /\ operation_mode \in {"storing_placing", "retrieving_picking"}
    /\ animation_cell_index < Len(animation_cells)
    /\ NoDbCall
    /\ UNCHANGED <<rack, trolley_row, trolley_col, trolley_path,
                   animation_cell_index, animation_cells, pending_box,
                   pending_position, retrieving_box_id, distance_traveled,
                   pending_model_id>>

\* the last tick of placing in which update_grid_display raises (line 1322),
\* after place_box, add_box_to_db and the planning of the return path
fault_placing ==
    /\ operation_mode = "storing_placing"
    /\ animation_cell_index >= Len(animation_cells)
    /\ rack' = place_box(rack, pending_box[1],
                         pending_position[1], pending_position[2])
    /\ pending_box' = <<place_box_argument(rack, pending_box[1],
                                           pending_position[1], pending_position[2])>>
    /\ db_calls' = {"add_box_to_db"}
    /\ logged' = << >>
    /\ maint' = << >>
    /\ db_failed' \in SUBSET {"add_box_to_db"}
    /\ trolley_path' = a_star_pathfinding(rack'.grid, <<trolley_row, trolley_col>>,
                                          <<ORIGIN_ROW, ORIGIN_COL>>)
    /\ UNCHANGED <<trolley_row, trolley_col, animation_cell_index, animation_cells,
                   pending_position, retrieving_box_id, distance_traveled,
                   pending_model_id>>

\* the last tick of picking in which update_grid_display raises (line 1359),
\* after remove_box and the planning of the return path
fault_picking ==
    /\ operation_mode = "retrieving_picking"
    /\ animation_cell_index >= Len(animation_cells)
    /\ rack' = remove_box(rack, retrieving_box_id)
    /\ NoDbCall
    /\ trolley_path' = a_star_pathfinding(rack'.grid, <<trolley_row, trolley_col>>,
                                          <<ORIGIN_ROW, ORIGIN_COL>>)
    /\ UNCHANGED <<trolley_row, trolley_col, animation_cell_index, animation_cells,
                   pending_box, pending_position, retrieving_box_id,
                   distance_traveled, pending_model_id>>

\* the finalizing tick in which update_dashboard raises (line 1382:
\* get_maintenance_info has no except branch), after log_operation and
\* update_maintenance_cycles and before save_game_state
fault_finalizing ==
    /\ operation_mode = "returning"
    /\ Len(trolley_path) = 1
    /\ PopStep
    /\ IF pending_box # << >>
       THEN /\ logged' = <<[box_id    |-> pending_box[1].box_id,
                            operation |-> "STORED",
                            distance  |-> distance_traveled]>>
            /\ pending_box' = << >>
            /\ UNCHANGED retrieving_box_id
       ELSE /\ logged' = <<[box_id    |-> retrieving_box_id,
                            operation |-> "RETRIEVED",
                            distance  |-> distance_traveled]>>
            /\ retrieving_box_id' = None
            /\ UNCHANGED pending_box
    /\ maint' = <<distance_traveled>>
    /\ db_calls' = {"log_operation", "update_maintenance_cycles"}
    /\ db_failed' \in SUBSET db_calls'
    /\ UNCHANGED <<rack, animation_cell_index, animation_cells, pending_position,
                   distance_traveled, pending_model_id>>

\* one timeout of animation_timer in which an exception is raised
AnimateFault ==
    /\ timer_active
    /\ faults < MaxFaults
    /\ faults' = faults + 1
    /\ UNCHANGED maintenance_info
    /\ UNCHANGED result
    /\ \/ fault_moving
       \/ fault_marking
       \/ fault_placing
       \/ fault_picking
       \/ fault_finalizing
    /\ except_branch

\* the reset leaving the pending box and the retrieval target set
reset_rack_keeps_pending ==
    /\ db_calls' = {"clear_all_database"}
    /\ logged' = << >>
    /\ maint' = << >>
    /\ db_failed' = {}
    /\ rack' = Rack
    /\ trolley_row' = ORIGIN_ROW
    /\ trolley_col' = ORIGIN_COL
    /\ trolley_path' = << >>
    /\ is_animating' = FALSE
    /\ operation_mode' = "idle"
    /\ timer_active' = FALSE
    /\ response' = "Reset Complete"
    /\ legs' = << >>
    /\ UNCHANGED <<pending_box, retrieving_box_id, animation_cell_index,
                   animation_cells, pending_position, distance_traveled,
                   pending_model_id, result, faults, maintenance_info>>

\* the reset leaving the trolley on the cell it is on
reset_rack_keeps_trolley ==
    /\ db_calls' = {"clear_all_database"}
    /\ logged' = << >>
    /\ maint' = << >>
    /\ db_failed' = {}
    /\ rack' = Rack
    /\ trolley_path' = << >>
    /\ is_animating' = FALSE
    /\ operation_mode' = "idle"
    /\ pending_box' = << >>
    /\ retrieving_box_id' = None
    /\ timer_active' = FALSE
    /\ response' = "Reset Complete"
    /\ legs' = << >>
    /\ UNCHANGED <<trolley_row, trolley_col, animation_cell_index,
                   animation_cells, pending_position, distance_traveled,
                   pending_model_id, result, faults, maintenance_info>>

\* the "Reset" button, answered Yes
reset_rack ==
    /\ db_calls' = {"clear_all_database"}
    /\ logged' = << >>
    /\ maint' = << >>
    /\ db_failed' = {}
    /\ rack' = Rack
    /\ trolley_row' = ORIGIN_ROW
    /\ trolley_col' = ORIGIN_COL
    /\ trolley_path' = << >>
    /\ is_animating' = FALSE
    /\ operation_mode' = "idle"
    /\ pending_box' = << >>
    /\ retrieving_box_id' = None
    /\ timer_active' = FALSE
    /\ response' = "Reset Complete"
    /\ legs' = << >>
    /\ UNCHANGED <<animation_cell_index, animation_cells, pending_position,
                   distance_traveled, pending_model_id, result, faults,
                   maintenance_info>>

\* the "Save" button: save_game_state(self.rack)
save_state ==
    /\ db_calls' = {"save_game_state"}
    /\ logged' = << >>
    /\ maint' = << >>
    /\ db_failed' = {}
    /\ response' = "Saved"
    /\ UNCHANGED <<rack, window, legs, result, faults, maintenance_info>>

Next ==
    \/ AddBox
    \/ Retrieve
    \/ MoveTrolley
    \/ Animate
    \/ reset_rack
    \/ save_state

Spec == Init /\ [][Next]_vars

\* the timer keeps firing while it is active
FairSpec == Init /\ [][Next]_vars /\ WF_vars(Animate)

\* the program with ticks that raise an exception. The requests are made
\* while no operation is in flight, where the Add Box and Retrieve Box
\* buttons are enabled (lines 1050-1051, 1191-1192, 1256-1257, 1384-1385,
\* 1402-1403, 1420-1421, 1465-1466); the Save button, which changes no field
\* of the window, is left out
FaultNext ==
    \/ ~is_animating /\ AddBox
    \/ ~is_animating /\ Retrieve
    \/ ~is_animating /\ MoveTrolley
    \/ Animate
    \/ AnimateFault
    \/ reset_rack

FaultSpec == Init /\ [][FaultNext]_vars

(***************************************************************************)
(* The Rack class on its own: any sequence of place_box and remove_box     *)
(* calls, with anchors inside the grid and one cell outside on each side.  *)
(***************************************************************************)
AnchorRows == -1 .. GRID_ROWS
AnchorCols == -1 .. GRID_COLS

RackPlace ==
    \E model_id \in ModelIds, row \in AnchorRows, col \in AnchorCols :
        LET dimensions == get_model_dimensions(model_id)
            box        == Box(dimensions[1], dimensions[2], None, model_id)
        IN  /\ rack.next_box_id <= MaxBoxId
            /\ rack' = place_box(rack, box, row, col)
            /\ result' = [call |-> "place_box",
                          ret  |-> can_place_box(rack, box, row, col)]
            /\ UNCHANGED <<window, database, response, legs, faults,
                           maintenance_info>>

RackRemove ==
    \E box_id \in 0 .. MaxBoxId + 1 :
        /\ rack' = remove_box(rack, box_id)
        /\ result' = [call |-> "remove_box", ret |-> box_id \in DOMAIN rack.boxes]
        /\ UNCHANGED <<window, database, response, legs, faults,
                       maintenance_info>>

RackNext ==
    \/ RackPlace
    \/ RackRemove

RackSpec == Init /\ [][RackNext]_vars

(***************************************************************************)
(* pcode_to_cell on its own: the function applied to the texts of          *)
(* PcodeInputs.                                                            *)
(***************************************************************************)
\* the prefixes tried before the number, as typed
PcodePrefixes == {"", "pcode-", "PCODE-", "Pcode-", "  pcode-"}

\* pcode_str.strip().lower() on a prefix
StripLower(prefix) == IF prefix = "" THEN "" ELSE "pcode-"

\* the numbers tried: from below 1 to above GRID_ROWS * GRID_COLS
PcodeNumbers == -5 .. GRID_ROWS * GRID_COLS + 5

\* the texts tried: a prefix followed by the decimal text of a number
\* (body <<n>>) or by a text int() does not take (body << >>)
PcodeInputs ==
    [prefix : PcodePrefixes, body : {<<n>> : n \in PcodeNumbers} \cup {<< >>}]

\* the plain decimal text of n
PlainText(n) == [prefix |-> "", body |-> <<n>>]

\* the conversion counting the codes from 0
pcode_to_cell_from_zero(pcode_str) ==
    LET p == IF StripLower(pcode_str.prefix) # "pcode-"
             THEN [pcode_str EXCEPT !.prefix = "pcode-"]
             ELSE [pcode_str EXCEPT !.prefix = StripLower(pcode_str.prefix)]
    IN  IF p.body = << >>
        THEN << >>
        ELSE LET num == p.body[1]
                 idx == num
                 row == idx \div GRID_COLS
                 col == idx % GRID_COLS
             IN  IF num <= 0
                 THEN << >>
                 ELSE IF 0 <= row /\ row < GRID_ROWS /\ 0 <= col /\ col < GRID_COLS
                 THEN <<row, col>>
                 ELSE << >>

\* pcode_to_cell(pcode_str): the cell, or << >> for None
pcode_to_cell(pcode_str) ==
    LET p == IF StripLower(pcode_str.prefix) # "pcode-"
             THEN [pcode_str EXCEPT !.prefix = "pcode-"]
             ELSE [pcode_str EXCEPT !.prefix = StripLower(pcode_str.prefix)]
    IN  IF p.body = << >>
        THEN << >>   \* int() raises ValueError, caught: None
        ELSE LET num == p.body[1]
                 idx == num - 1
                 row == idx \div GRID_COLS
                 col == idx % GRID_COLS
             IN  IF num <= 0
                 THEN << >>
                 ELSE IF 0 <= row /\ row < GRID_ROWS /\ 0 <= col /\ col < GRID_COLS
                 THEN <<row, col>>
                 ELSE << >>

\* update_grid_display: the label shown on the empty cell (row, col)
linear_idx(row, col) == row * GRID_COLS + col + 1

PcodeToCell ==
    \E pcode_str \in PcodeInputs :
        /\ result' = [call |-> "pcode_to_cell",
                      arg  |-> pcode_str,
                      ret  |-> pcode_to_cell(pcode_str)]
        /\ UNCHANGED <<rack, window, database, response, legs, faults,
                       maintenance_info>>

PcodeNext ==
    \/ PcodeToCell

PcodeSpec == Init /\ [][PcodeNext]_vars

(***************************************************************************)
(* The database functions on the table maintenance_info on their own: any  *)
(* sequence of update_maintenance_cycles and clear_all_database calls.     *)
(***************************************************************************)
\* update_maintenance_cycles(distance_traveled); when the UPDATE raises, the
\* exception is caught and nothing is committed
UpdateMaintenance ==
    \E distance \in 0 .. MaxDistance, failed \in BOOLEAN :
        /\ maintenance_info.cycles_total < MaxCycles
        /\ db_calls' = {"update_maintenance_cycles"}
        /\ maint' = <<distance>>
        /\ logged' = << >>
        /\ db_failed' = IF failed THEN {"update_maintenance_cycles"} ELSE {}
        /\ maintenance_info' =
              IF failed
              THEN maintenance_info
              ELSE update_maintenance_cycles(maintenance_info, distance)
        /\ UNCHANGED <<rack, window, response, legs, result, faults>>

\* clear_all_database(), the part on maintenance_info
ClearDatabase ==
    /\ db_calls' = {"clear_all_database"}
    /\ maint' = << >>
    /\ logged' = << >>
    /\ db_failed' = {}
    /\ maintenance_info' = NewMaintenanceInfo
    /\ UNCHANGED <<rack, window, response, legs, result, faults>>

MaintenanceNext ==
    \/ UpdateMaintenance
    \/ ClearDatabase

MaintenanceSpec == Init /\ [][MaintenanceNext]_vars

(***************************************************************************)
(* Properties                                                              *)
(***************************************************************************)
Origin == <<ORIGIN_ROW, ORIGIN_COL>>

\* the identifiers in the order sequence
OrderIds(rk) == {rk.box_order[i] : i \in 1 .. Len(rk.box_order)}

\* C1: after any sequence of place_box and remove_box calls the box map, the
\* position map and the order sequence hold the same identifiers, and the
\* order sequence holds no identifier twice.
C1_KeySetsAgree ==
    /\ DOMAIN rack.boxes = DOMAIN rack.box_positions
    /\ DOMAIN rack.boxes = OrderIds(rack)
    /\ \A i, j \in 1 .. Len(rack.box_order) :
          i # j => rack.box_order[i] # rack.box_order[j]

\* C1 witness: a box has been removed while two others stay stored, after a
\* failed call has happened as well
C1_Witness ==
    /\ result = [call |-> "remove_box", ret |-> TRUE]
    /\ Len(rack.box_order) = 2

\* the footprint of the stored box i: width rows by length columns starting
\* at the recorded anchor
FootprintOf(rk, i) ==
    {<<r, c>> : r \in rk.box_positions[i][1] ..
                      rk.box_positions[i][1] + rk.boxes[i].width - 1,
                c \in rk.box_positions[i][2] ..
                      rk.box_positions[i][2] + rk.boxes[i].length - 1}

\* C2: a grid cell holds identifier i exactly when it lies in the footprint
\* of the stored box i, every other cell is empty, and the footprints of two
\* stored boxes do not overlap.
C2_GridMatchesFootprints ==
    /\ \A cell \in Cells :
          \/ rack.grid[cell] = None
          \/ rack.grid[cell] \in DOMAIN rack.boxes
    /\ \A cell \in Cells : \A i \in DOMAIN rack.boxes :
          rack.grid[cell] = i <=> cell \in FootprintOf(rack, i)
    /\ \A i, j \in DOMAIN rack.boxes :
          i # j => FootprintOf(rack, i) \cap FootprintOf(rack, j) = {}

StoreRetrievePhases ==
    {"storing_moving", "storing_placing", "retrieving_moving",
     "retrieving_picking", "returning"}

\* C3: under fair ticking every accepted store or retrieve request
\* eventually brings the phase back to idle.
C3_AcceptedRequestReturnsToIdle ==
    (operation_mode \in StoreRetrievePhases) ~> (operation_mode = "idle")

\* a store of a 1 x 1 box has just been accepted on the empty rack with the
\* trolley on the origin: the allocated anchor is the trolley's cell
StoreAtOriginAccepted ==
    /\ operation_mode = "storing_moving"
    /\ rack = Rack
    /\ <<trolley_row, trolley_col>> = Origin
    /\ pending_position = Origin
    /\ pending_box # << >>
    /\ pending_box[1].length = 1
    /\ pending_box[1].width = 1
    /\ trolley_path = << >>

StoreAtOriginDone ==
    /\ operation_mode = "idle"
    /\ rack.box_order = <<1>>
    /\ DOMAIN rack.boxes = {1}
    /\ rack.box_positions[1] = Origin
    /\ \A cell \in Cells : rack.grid[cell] = (IF cell = Origin THEN 1 ELSE None)
    /\ logged = <<[box_id |-> 1, operation |-> "STORED", distance |-> 0]>>

\* C4: a store whose allocated anchor is the trolley's cell completes: on the
\* empty grid with the trolley on the origin, storing a 1 x 1 box ends idle
\* with one box stored at the origin, order sequence <<1>> and reported
\* distance 0 (unless the user resets the rack first).
C4_StoreAtOriginCompletes ==
    StoreAtOriginAccepted ~> (StoreAtOriginDone \/ response = "Reset Complete")

\* C5: no cell of a planned path other than the goal is occupied in the grid
\* handed to the planner.
C5_PathAvoidsOccupied ==
    \A start \in Cells, goal \in Cells :
        LET path == a_star_pathfinding(rack.grid, start, goal)
        IN  \A i \in 1 .. Len(path) :
               path[i] # goal => rack.grid[path[i]] = None

\* C6: a store, retrieve or relocation request issued while the phase is not
\* idle changes neither the rack nor any field of the sequencer (phase, path,
\* trolley position, pending operation record).
C6_BusyRequestChangesNothing ==
    [][(operation_mode # "idle" /\ (AddBox \/ Retrieve \/ MoveTrolley))
          => UNCHANGED <<rack, window, legs>>]_vars

\* C6 witness: a request has been turned down while an operation is moving
C6_Witness ==
    /\ operation_mode \in {"storing_placing", "retrieving_moving", "goto_pcode"}
    /\ response \in {"rejected: animation in progress", "Busy"}

\* C7: the distance reported at finalization, to the operation log and to
\* the maintenance counter, is the length of the outbound path plus the
\* length of the return path.
C7_ReportedDistanceIsBothLegs ==
    [][(Animate /\ operation_mode = "returning" /\ operation_mode' = "idle")
          => /\ logged'[1].distance = legs[1] + legs[2]
             /\ maint'[1] = legs[1] + legs[2]]_vars

Max(S) == CHOOSE x \in S : \A y \in S : y <= x

Min(S) == CHOOSE x \in S : \A y \in S : x <= y

\* C8: unfiltered LIFO selection returns the most recently stored box still
\* stored, unfiltered FIFO selection the earliest stored one, and both none
\* on the empty rack.  Identifiers are handed out in increasing order, so the
\* most recently stored box is the one with the largest identifier.
C8_LifoFifoSelection ==
    IF DOMAIN rack.boxes = {}
    THEN get_lifo_box(rack) = None /\ get_fifo_box(rack) = None
    ELSE /\ get_lifo_box(rack) = Max(DOMAIN rack.boxes)
         /\ get_fifo_box(rack) = Min(DOMAIN rack.boxes)

\* C8 witness: A, B, C stored and B removed
C8_Witness ==
    /\ rack.box_order = <<1, 3>>
    /\ result = [call |-> "remove_box", ret |-> TRUE]
    /\ get_lifo_box(rack) = 3
    /\ get_fifo_box(rack) = 1

\* the anchors at which a box of the model's dimensions fits inside the grid
\* and can be placed
ValidAnchors(rk, box) ==
    {a \in Cells : /\ a[1] <= GRID_ROWS - box.width
                   /\ a[2] <= GRID_COLS - box.length
                   /\ can_place_box(rk, box, a[1], a[2])}

\* a comes before b in row-major order, or is b
RowMajorLeq(a, b) == a[1] < b[1] \/ (a[1] = b[1] /\ a[2] <= b[2])

ModelBox(model_id) ==
    Box(get_model_dimensions(model_id)[1], get_model_dimensions(model_id)[2],
        None, model_id)

\* C9: when some anchor is valid, find_closest_available_location returns
\* the valid anchor at minimum Euclidean distance from the origin point, and
\* among the valid anchors at that distance the first in row-major order.
C9_ClosestAnchorFirstInScan ==
    \A model_id \in ModelIds, origin \in Cells :
        LET box   == ModelBox(model_id)
            valid == ValidAnchors(rack, box)
            found == find_closest_available_location(rack, box, origin[1], origin[2])
            d(a)  == (a[1] - origin[1]) * (a[1] - origin[1])
                       + (a[2] - origin[2]) * (a[2] - origin[2])
        IN  valid # {} =>
              /\ found \in valid
              /\ \A a \in valid : d(found) <= d(a)
              /\ \A a \in valid : d(a) = d(found) => RowMajorLeq(found, a)

\* C9 witness: with boxes stored, two valid anchors for a 1 x 1 box lie at
\* the same, minimum distance from the origin cell
C9_Witness ==
    /\ rack.box_order # << >>
    /\ \E a, b \in ValidAnchors(rack, ModelBox(1)) :
          /\ a # b
          /\ Distance2(a[1], a[2], ORIGIN_ROW, ORIGIN_COL)
               = Distance2(b[1], b[2], ORIGIN_ROW, ORIGIN_COL)
          /\ \A x \in ValidAnchors(rack, ModelBox(1)) :
                Distance2(a[1], a[2], ORIGIN_ROW, ORIGIN_COL)
                  <= Distance2(x[1], x[2], ORIGIN_ROW, ORIGIN_COL)

\* a single 1 x 1 box occupies the origin cell and every other cell is empty
SingleBoxAtOrigin ==
    /\ Cardinality(DOMAIN rack.boxes) = 1
    /\ \A i \in DOMAIN rack.boxes :
          /\ rack.boxes[i].length = 1
          /\ rack.boxes[i].width = 1
          /\ rack.box_positions[i] = Origin
          /\ \A cell \in Cells : rack.grid[cell] = (IF cell = Origin THEN i ELSE None)

\* C10 as stated: with a single 1 x 1 box on the origin cell, a store request
\* for a second 1 x 1 box is allocated the anchor right of the origin,
\* (2,1) on the 3 x 3 grid.
C10_SecondBoxRightOfOrigin ==
    SingleBoxAtOrigin => StoreTarget(rack, 1) = <<ORIGIN_ROW, ORIGIN_COL + 1>>

\* C10 amended: the request is allocated the anchor above the origin, (1,0)
\* on the 3 x 3 grid: of the two anchors at distance 1 it is the first in
\* row-major scan order.
C10_SecondBoxAboveOrigin ==
    SingleBoxAtOrigin => StoreTarget(rack, 1) = <<ORIGIN_ROW - 1, ORIGIN_COL>>

\* C10 witness: the single 1 x 1 box has been placed on the origin cell
C10_Witness ==
    /\ SingleBoxAtOrigin
    /\ result = [call |-> "place_box", ret |-> TRUE]

\* an AddBox step that accepts the request in the idle phase
StoreAccepted ==
    /\ AddBox
    /\ operation_mode = "idle"
    /\ operation_mode' = "storing_moving"

\* C11: for a store request accepted in idle, the slot chosen is a valid
\* anchor at minimum distance from the trolley's position at request time,
\* and the outbound path runs from that position to the chosen anchor.
C11_SlotNearestToAgent ==
    [][StoreAccepted =>
          LET box   == pending_box'[1]
              valid == ValidAnchors(rack, box)
          IN  /\ pending_position' \in valid
              /\ \A a \in valid :
                    Distance2(pending_position'[1], pending_position'[2],
                              trolley_row, trolley_col)
                      <= Distance2(a[1], a[2], trolley_row, trolley_col)
              /\ trolley_path' = a_star_pathfinding(rack.grid,
                                     <<trolley_row, trolley_col>>,
                                     pending_position')]_vars

\* the tick that ends Placing / ends Picking: every footprint cell is marked
EndsPlacing ==
    /\ operation_mode = "storing_placing"
    /\ animation_cell_index >= Len(animation_cells)

EndsPicking ==
    /\ operation_mode = "retrieving_picking"
    /\ animation_cell_index >= Len(animation_cells)

\* C12: of the request handlers and the ticks, only the tick that ends
\* Placing and the tick that ends Picking change the rack: the first by one
\* place of the pending box at the pending position, the second by one
\* remove of the box being retrieved.  Every other request or tick leaves
\* the grid, the maps, the order sequence and the counter unchanged.
C12_RackChangesOnlyAtPhaseEnd ==
    [][(AddBox \/ Retrieve \/ MoveTrolley \/ Animate) =>
          IF Animate /\ EndsPlacing
          THEN /\ rack'.box_order = Append(rack.box_order, rack.next_box_id)
               /\ rack'.next_box_id = rack.next_box_id + 1
               /\ rack'.box_positions[rack.next_box_id] = pending_position
               /\ DOMAIN rack'.boxes = DOMAIN rack.boxes \cup {rack.next_box_id}
               /\ \A i \in DOMAIN rack.boxes :
                     /\ rack'.boxes[i] = rack.boxes[i]
                     /\ rack'.box_positions[i] = rack.box_positions[i]
          ELSE IF Animate /\ EndsPicking
          THEN /\ retrieving_box_id \in DOMAIN rack.boxes
               /\ rack'.box_order = ListRemove(rack.box_order, retrieving_box_id)
               /\ DOMAIN rack'.boxes = DOMAIN rack.boxes \ {retrieving_box_id}
               /\ DOMAIN rack'.box_positions = DOMAIN rack'.boxes
               /\ rack'.next_box_id = rack.next_box_id
               /\ \A i \in DOMAIN rack'.boxes :
                     /\ rack'.boxes[i] = rack.boxes[i]
                     /\ rack'.box_positions[i] = rack.box_positions[i]
          ELSE rack' = rack]_vars

\* C12 witness: a retrieval has passed its marking ticks and the tick that
\* ends Picking has removed the box, while another box stays stored
C12_Witness ==
    /\ operation_mode = "returning"
    /\ retrieving_box_id # None
    /\ retrieving_box_id \notin DOMAIN rack.boxes
    /\ rack.box_order # << >>
    /\ animation_cell_index = Len(animation_cells)
    /\ animation_cell_index >= 1

\* a direct place_box call that returned True
PlaceSucceeded ==
    /\ RackPlace
    /\ result'.ret

\* C13: a successful place_box(box, row, col) changes only the cells of the
\* footprint rows [row, row+width) by columns [col, col+length), each of
\* which was empty before the call and holds the new identifier after it;
\* every cell outside the footprint keeps its value, and the box, position
\* and relative order of every box stored before are unchanged.
C13_PlaceChangesOnlyFootprint ==
    [][PlaceSucceeded =>
          LET id        == rack.next_box_id
              footprint == FootprintOf(rack', id)
          IN  /\ footprint \subseteq Cells
              /\ \A cell \in footprint :
                    /\ rack.grid[cell] = None
                    /\ rack'.grid[cell] = id
              /\ \A cell \in Cells \ footprint : rack'.grid[cell] = rack.grid[cell]
              /\ \A i \in DOMAIN rack.boxes :
                    /\ rack'.boxes[i] = rack.boxes[i]
                    /\ rack'.box_positions[i] = rack.box_positions[i]
              /\ SubSeq(rack'.box_order, 1, Len(rack.box_order)) = rack.box_order]_vars

\* a direct remove_box call that returned True
RemoveSucceeded ==
    /\ RackRemove
    /\ result'.ret

\* the identifier a successful remove_box call removed
RemovedId == CHOOSE i \in DOMAIN rack.boxes : i \notin DOMAIN rack'.boxes

\* C14: a successful remove_box(id) empties exactly the cells that were
\* marked with id when the box was placed and changes no other cell; it
\* deletes only id from the box map, the position map and the order
\* sequence, and the remaining identifiers keep their relative order.
C14_RemoveClearsOnlyFootprint ==
    [][RemoveSucceeded =>
          /\ Cardinality(DOMAIN rack.boxes \ DOMAIN rack'.boxes) = 1
          /\ LET id == RemovedId
             IN  /\ \A cell \in Cells :
                       rack'.grid[cell] =
                          (IF rack.grid[cell] = id THEN None ELSE rack.grid[cell])
                 /\ DOMAIN rack'.boxes = DOMAIN rack.boxes \ {id}
                 /\ DOMAIN rack'.box_positions = DOMAIN rack.box_positions \ {id}
                 /\ \A i \in DOMAIN rack'.boxes :
                       /\ rack'.boxes[i] = rack.boxes[i]
                       /\ rack'.box_positions[i] = rack.box_positions[i]
                 /\ rack'.box_order =
                       SelectSeq(rack.box_order, LAMBDA i : i # id)
                 /\ rack'.next_box_id = rack.next_box_id]_vars

\* C14 witness: the first of three stored boxes has been removed, and one of
\* the two that stay covers two cells
C14_Witness ==
    /\ result = [call |-> "remove_box", ret |-> TRUE]
    /\ rack.box_order = <<2, 3>>
    /\ \E i \in DOMAIN rack.boxes : rack.boxes[i].width = 2

\* C15: in any sequence of place_box and remove_box calls the identifier a
\* successful place assigns is the value of the counter before the call,
\* the counter is then one more, and no call decreases the counter: every
\* identifier assigned is greater than all assigned before it, so none is
\* assigned twice, not even after its box was removed.
C15_IdentifiersIncrease ==
    [][/\ rack'.next_box_id >= rack.next_box_id
       /\ \A i \in DOMAIN rack.boxes : i < rack.next_box_id
       /\ \A i \in DOMAIN rack'.boxes \ DOMAIN rack.boxes :
             /\ i = rack.next_box_id
             /\ rack'.next_box_id = i + 1
       /\ (PlaceSucceeded =>
             DOMAIN rack'.boxes = DOMAIN rack.boxes \cup {rack.next_box_id})]_vars

\* C15 witness: a box has been placed after the removal of an earlier one
C15_Witness ==
    /\ result = [call |-> "place_box", ret |-> TRUE]
    /\ rack.box_order = <<2, 3>>
    /\ rack.next_box_id = 4

\* C16: for every box and every anchor, also one outside the grid,
\* can_place_box returns true exactly when every cell of the footprint rows
\* [row, row+width) by columns [col, col+length) lies inside the grid and is
\* empty.
C16_CanPlaceIffInsideAndEmpty ==
    \A model_id \in ModelIds, row \in AnchorRows, col \in AnchorCols :
        LET box == ModelBox(model_id)
        IN  can_place_box(rack, box, row, col)
              <=> \A r \in row .. row + box.width - 1 :
                     \A c \in col .. col + box.length - 1 :
                        /\ <<r, c>> \in Cells
                        /\ rack.grid[<<r, c>>] = None

\* C17: when can_place_box is false for (box, row, col), place_box returns
\* False, leaves the grid, the maps, the order sequence and the counter as
\* they were, and the box keeps its identifier None.
C17_FailedPlaceChangesNothing ==
    [][/\ (RackPlace /\ ~result'.ret) => rack' = rack
       /\ \A model_id \in ModelIds, row \in AnchorRows, col \in AnchorCols :
             LET box == ModelBox(model_id)
             IN  ~can_place_box(rack, box, row, col) =>
                    /\ place_box(rack, box, row, col) = rack
                    /\ place_box_argument(rack, box, row, col).box_id = None]_vars

\* C17 witness: a place_box call has failed on a rack that holds boxes
C17_Witness ==
    /\ result = [call |-> "place_box", ret |-> FALSE]
    /\ Len(rack.box_order) >= 2

\* C18: remove_box called with an identifier that is not stored (never
\* assigned, or removed before) returns False and leaves the grid, the maps,
\* the order sequence and the counter as they were.
C18_FailedRemoveChangesNothing ==
    [][/\ (RackRemove /\ ~result'.ret) => rack' = rack
       /\ \A box_id \in 0 .. MaxBoxId + 1 :
             box_id \notin DOMAIN rack.boxes => remove_box(rack, box_id) = rack]_vars

\* C18 witness: a remove_box call has failed on a rack from which box 2 was
\* removed before and which still holds boxes 1 and 3
C18_Witness ==
    /\ result = [call |-> "remove_box", ret |-> FALSE]
    /\ rack.box_order = <<1, 3>>

\* the boxes handed to the allocator: every length and width up to one more
\* than the grid's columns and rows
AllocatorBoxes ==
    {Box(length, width, None, None) :
        length \in 1 .. GRID_COLS + 1, width \in 1 .. GRID_ROWS + 1}

\* the points the allocator is asked from: the origin cell and the corner
\* opposite to it
AllocatorOrigins == {Origin, <<0, GRID_COLS - 1>>}

\* C19: find_closest_available_location returns None exactly when no anchor
\* (row, col) with 0 <= row <= rows - width and 0 <= col <= cols - length
\* satisfies can_place_box, in particular for a box larger than the grid;
\* otherwise the anchor it returns satisfies can_place_box.
C19_NoneIffNoValidAnchor ==
    \A box \in AllocatorBoxes, origin \in AllocatorOrigins :
        LET found == find_closest_available_location(rack, box, origin[1], origin[2])
        IN  /\ found = << >> <=> ValidAnchors(rack, box) = {}
            /\ found # << >> =>
                  /\ found \in Cells
                  /\ can_place_box(rack, box, found[1], found[2])
            /\ (box.width > GRID_ROWS \/ box.length > GRID_COLS) => found = << >>

\* C19 witness: boxes are stored so that a box of one column by two rows
\* fits nowhere, while a 1 x 1 box still does
C19_Witness ==
    /\ rack.box_order # << >>
    /\ find_closest_available_location(rack, ModelBox(2), ORIGIN_ROW, ORIGIN_COL) = << >>
    /\ find_closest_available_location(rack, ModelBox(1), ORIGIN_ROW, ORIGIN_COL) # << >>

\* no cell of the grid is occupied
EmptyGrid(grid) == \A cell \in Cells : grid[cell] = None

\* C20: for every in-grid cell A the planner returns the empty path from A
\* to A, and on a grid with no occupied cell the path it returns from any
\* in-grid start to any in-grid goal has the Manhattan distance between them
\* as its length.
C20_PathLengthIsManhattan ==
    \A start \in Cells, goal \in Cells :
        LET path == a_star_pathfinding(rack.grid, start, goal)
        IN  /\ start = goal => path = << >>
            /\ EmptyGrid(rack.grid) => Len(path) = heuristic(start, goal)

\* C20 witness: on the empty grid the planner was asked for the path from
\* the origin corner to the opposite corner, and the trolley is under way
C20_Witness ==
    /\ EmptyGrid(rack.grid)
    /\ operation_mode = "goto_pcode"
    /\ <<trolley_row, trolley_col>> = Origin
    /\ trolley_path # << >>
    /\ trolley_path[Len(trolley_path)] = <<0, GRID_COLS - 1>>
    /\ Len(trolley_path) = (GRID_ROWS - 1) + (GRID_COLS - 1)

\* the cells reached from the cells of S by steps to adjacent empty cells
RECURSIVE FreeReach(_, _)
FreeReach(grid, S) ==
    LET next == S \cup {cell \in Cells :
                           /\ grid[cell] = None
                           /\ \E s \in S : heuristic(s, cell) = 1}
    IN  IF next = S THEN S ELSE FreeReach(grid, next)

\* some route leads from start to goal over empty cells only (start and
\* goal themselves may be occupied)
ObstacleFreeRoute(grid, start, goal) ==
    \E cell \in FreeReach(grid, {start}) : heuristic(cell, goal) = 1

\* C21: the planner returns the empty sequence exactly when start equals goal
\* or every route from start to goal passes through an occupied cell; when
\* an obstacle-free route exists it returns a path.
C21_EmptyPathIffNoFreeRoute ==
    \A start \in Cells, goal \in Cells :
        a_star_pathfinding(rack.grid, start, goal) = << >>
          <=> (start = goal \/ ~ObstacleFreeRoute(rack.grid, start, goal))

\* the stored boxes of the model
StoredOfModel(rk, model_id) ==
    {i \in DOMAIN rk.boxes : rk.boxes[i].model_id = model_id}

\* C22: in every reachable rack state and for every model m,
\* get_boxes_by_model(m) lists the stored boxes of model m in store order,
\* model-filtered FIFO selection returns its first and model-filtered LIFO
\* selection its last element, and both return none when no stored box has
\* model m.
C22_FilteredSelection ==
    \A model_id \in ModelIds :
        LET listed == get_boxes_by_model(rack, model_id)
        IN  /\ {listed[k] : k \in 1 .. Len(listed)} = StoredOfModel(rack, model_id)
            /\ \A k \in 1 .. Len(listed) - 1 : listed[k] < listed[k + 1]
            /\ IF listed = << >>
               THEN /\ get_fifo_box_by_model(rack, model_id) = None
                    /\ get_lifo_box_by_model(rack, model_id) = None
               ELSE /\ get_fifo_box_by_model(rack, model_id) = listed[1]
                    /\ get_lifo_box_by_model(rack, model_id) = listed[Len(listed)]

\* C22 witness: the oldest and the newest stored box are of model 2, one of
\* model 1 lies between them, so the selection filtered by model 1 differs
\* from the unfiltered one at both ends
C22_Witness ==
    /\ Len(rack.box_order) = 3
    /\ rack.boxes[rack.box_order[1]].model_id = 2
    /\ rack.boxes[rack.box_order[2]].model_id = 1
    /\ rack.boxes[rack.box_order[3]].model_id = 2
    /\ get_fifo_box_by_model(rack, 1) = rack.box_order[2]
    /\ get_lifo_box_by_model(rack, 1) = rack.box_order[2]

\* the request was turned down in the idle phase: the phase stays idle, the
\* rack, the trolley position and the remaining path are as before and no
\* timer runs
RejectedInIdle ==
    /\ operation_mode' = "idle"
    /\ rack' = rack
    /\ trolley_row' = trolley_row
    /\ trolley_col' = trolley_col
    /\ trolley_path' = trolley_path
    /\ ~is_animating'
    /\ ~timer_active'

\* the retrieval request resolves to no box: the rack is empty, no stored
\* box has the filtered model, the identifier is malformed or not stored
NoSelection(mode, selected_model_id, id_input) ==
    \/ DOMAIN rack.boxes = {}
    \/ /\ mode \in {"LIFO", "FIFO"}
       /\ selected_model_id # None
       /\ StoredOfModel(rack, selected_model_id) = {}
    \/ /\ mode = "BY ID"
       /\ \/ id_input = << >>
          \/ id_input[1] \notin DOMAIN rack.boxes

\* C23: in the idle phase a store request for which the allocator finds no
\* slot, and a retrieve request whose selection resolves to no box, is turned
\* down at once: the phase stays idle, the rack, the trolley position and the
\* remaining path are unchanged and no timer is started.
C23_FailedRequestStaysIdle ==
    [][operation_mode = "idle" =>
          /\ \A model_id \in ModelIds :
                (/\ add_box_by_model(model_id)
                 /\ ValidAnchors(rack, ModelBox(model_id)) = {}) => RejectedInIdle
          /\ \A mode \in {"LIFO", "FIFO"}, selected_model_id \in {None} \cup ModelIds :
                (/\ retrieve_box(mode, selected_model_id, << >>)
                 /\ NoSelection(mode, selected_model_id, << >>)) => RejectedInIdle
          /\ \A id_input \in IdInputs :
                (/\ retrieve_box("BY ID", None, id_input)
                 /\ NoSelection("BY ID", None, id_input)) => RejectedInIdle]_vars

\* C23 witness: three stored boxes leave no slot for a box of one column by
\* two rows, and the store request for it has been turned down
C23_Witness ==
    /\ response = "No Space"
    /\ operation_mode = "idle"
    /\ Len(rack.box_order) = 3
    /\ ~timer_active

\* C24: in the idle phase and in every rack state, the empty rack included,
\* a by-identifier retrieve request fails with "Invalid ID" exactly when the
\* text is not a well-formed positive integer (malformed, zero or negative),
\* and with "Not Found" exactly when it is a well-formed positive integer
\* that is not in the position map.
C24_InvalidInputAndNotFound ==
    [][operation_mode = "idle" =>
          \A id_input \in IdInputs :
              retrieve_box("BY ID", None, id_input) =>
                 /\ response' = "Invalid ID"
                       <=> (id_input = << >> \/ id_input[1] <= 0)
                 /\ response' = "Not Found"
                       <=> /\ id_input # << >>
                           /\ id_input[1] > 0
                           /\ id_input[1] \notin DOMAIN rack.box_positions]_vars

\* C25: a relocation request issued in the idle phase whose target is the
\* trolley's own cell is accepted with the target replaced by an adjacent
\* cell inside the grid: the trolley sets out on a non-empty path that ends
\* on a cell next to its own.
C25_RelocationToOwnCellNudged ==
    [][(/\ operation_mode = "idle"
        /\ move_trolley_to_cell(trolley_row, trolley_col))
          => /\ operation_mode' = "goto_pcode"
             /\ timer_active'
             /\ trolley_path' # << >>
             /\ trolley_path'[Len(trolley_path')] \in Cells
             /\ heuristic(trolley_path'[Len(trolley_path')],
                          <<trolley_row, trolley_col>>) = 1]_vars

\* a relocation request for the cell is accepted in the idle phase
RelocationAccepted(cell) ==
    /\ operation_mode = "idle"
    /\ cell # <<trolley_row, trolley_col>>
    /\ move_trolley_to_cell(cell[1], cell[2])

\* C26: a relocation request issued in the idle phase for a cell other than
\* the trolley's is accepted with a path that ends on that cell.  While the
\* relocation is in flight the timer runs and the path is not empty; every
\* tick takes one cell off the path and moves the trolley onto it, leaves the
\* rack unchanged and keeps the phase.  The relocation ends only when the
\* last cell of the path, the requested target, has been taken: then the
\* trolley is on the target, the phase is idle and the rack is as it was.
\* So it ends after exactly path-length ticks, on the target, without
\* Placing, Picking or Returning.
C26_RelocationReachesTarget ==
    [][/\ \A cell \in Cells :
             RelocationAccepted(cell) =>
                /\ operation_mode' = "goto_pcode"
                /\ rack' = rack
                /\ Len(trolley_path') = heuristic(<<trolley_row, trolley_col>>, cell)
                /\ trolley_path'[Len(trolley_path')] = cell
       /\ operation_mode' = "goto_pcode" =>
             /\ timer_active'
             /\ trolley_path' # << >>
       /\ (Animate /\ operation_mode = "goto_pcode") =>
             /\ <<trolley_row', trolley_col'>> = trolley_path[1]
             /\ trolley_path' = Tail(trolley_path)
             /\ rack' = rack
       /\ operation_mode = "goto_pcode" =>
             /\ operation_mode' \in {"goto_pcode", "idle"}
             /\ operation_mode' = "idle" =>
                   /\ Len(trolley_path) = 1
                   /\ <<trolley_row', trolley_col'>> = trolley_path[1]
                   /\ rack' = rack
                   /\ ~timer_active']_vars

\* the phase changes of a store, of a retrieve and of a relocation
PhaseOrder ==
    {<<"idle", "storing_moving">>,
     <<"storing_moving", "storing_placing">>,
     <<"storing_placing", "returning">>,
     <<"idle", "retrieving_moving">>,
     <<"retrieving_moving", "retrieving_picking">>,
     <<"retrieving_picking", "returning">>,
     <<"returning", "idle">>,
     <<"idle", "goto_pcode">>,
     <<"goto_pcode", "idle">>}

\* C27: the phase changes only along idle, moving, placing, returning, idle
\* for a store, idle, moving, picking, returning, idle for a retrieve, and
\* idle, moving-to-cell, idle for a relocation: no phase is skipped or entered
\* again, a store never enters picking and a retrieve never enters placing.
C27_PhasesInOrder ==
    [][/\ operation_mode' # operation_mode =>
             <<operation_mode, operation_mode'>> \in PhaseOrder
       /\ operation_mode' = "storing_placing" => pending_box' # << >>
       /\ operation_mode' = "retrieving_picking" =>
             /\ pending_box' = << >>
             /\ retrieving_box_id' # None]_vars

\* C28: a tick makes a persistence call only when it takes the returning
\* phase to idle; no tick in the moving, placing, picking or moving-to-cell
\* phase makes one, the tick that ends placing or picking included.
C28_PersistenceOnlyAtFinalization ==
    [][(Animate /\ db_calls' # {}) =>
          /\ operation_mode = "returning"
          /\ operation_mode' = "idle"]_vars


\* the tick that finalizes an operation with a failing persistence call
FinalizationFails ==
    /\ Animate
    /\ operation_mode = "returning"
    /\ db_calls' = FinalizationCalls
    /\ db_failed' # {}

\* C29: when log_operation, update_maintenance_cycles or save_game_state fails
\* at the finalization, the operation still reaches idle with the timer
\* stopped, and the rack keeps the placement or the removal made at the end of
\* placing or picking.
C29_FailedPersistenceStillFinalizes ==
    [][FinalizationFails =>
          /\ operation_mode' = "idle"
          /\ ~timer_active'
          /\ ~is_animating'
          /\ rack' = rack
          /\ pending_box # << >> =>
                /\ pending_box[1].box_id \in DOMAIN rack'.boxes
                /\ \E pos \in Cells : rack'.grid[pos] = pending_box[1].box_id
          /\ pending_box = << >> =>
                /\ retrieving_box_id \notin DOMAIN rack'.boxes
                /\ \A pos \in Cells : rack'.grid[pos] # retrieving_box_id]_vars

\* a store finalized with all three persistence calls failing: the box stays
C29_Witness ==
    /\ operation_mode = "idle"
    /\ ~timer_active
    /\ db_failed = FinalizationCalls
    /\ response = "stored"
    /\ rack.box_order # << >>


\* C30: once an operation has left idle, no step other than a timer tick (its
\* own completion or a fatal fault) brings the phase back to idle or stops the
\* timer: no operation of the user cancels a store, a retrieval or a
\* relocation in flight.
C30_NoCancellation ==
    [][(operation_mode # "idle" /\ ~Animate) =>
          /\ operation_mode' = operation_mode
          /\ timer_active' = timer_active]_vars


\* the rack as the code of the tick itself leaves it before the exception is
\* raised: changed on the last tick of placing or picking only
RackLeftByTick ==
    IF operation_mode = "storing_placing"
       /\ animation_cell_index >= Len(animation_cells)
    THEN place_box(rack, pending_box[1], pending_position[1], pending_position[2])
    ELSE IF operation_mode = "retrieving_picking"
            /\ animation_cell_index >= Len(animation_cells)
    THEN remove_box(rack, retrieving_box_id)
    ELSE rack

\* the step is a tick that raised an exception: the handler is the only code
\* that leaves this message
TickFaulted == response' = "Animation Error"

\* C31: a tick that raises an exception, in any phase, ends with the phase
\* idle, the busy flag cleared and the timer stopped; the handler changes
\* nothing in the rack (the rack is as the tick's own code left it); and in
\* the state the handler leaves, no store, retrieval or relocation request is
\* rejected as busy.
C31_FaultForcesIdle ==
    [][/\ TickFaulted =>
             /\ operation_mode' = "idle"
             /\ ~is_animating'
             /\ ~timer_active'
             /\ rack' = RackLeftByTick
       /\ response = "Animation Error" =>
             response' \notin {"rejected: animation in progress", "Busy"}]_vars

\* a store ended by an exception (its pending box is still set) and a
\* retrieval accepted afterwards
C31_Witness ==
    /\ faults = 1
    /\ pending_box # << >>
    /\ operation_mode = "retrieving_moving"
    /\ response = "RETRIEVAL"


\* the step is a committed call of update_maintenance_cycles
MaintenanceCommitted ==
    /\ db_calls' = {"update_maintenance_cycles"}
    /\ db_failed' = {}

\* max(1, floor(distance / 10)): the number c >= 1 with c = 1 below 10 and
\* 10 * c <= distance < 10 * (c + 1) from 10 on
CyclesFor(distance) ==
    CHOOSE c \in 1 .. MaxDistance + 1 :
        IF distance < 10 THEN c = 1
        ELSE 10 * c <= distance /\ distance < 10 * (c + 1)

MovingPhases == {"storing_moving", "retrieving_moving", "returning", "goto_pcode"}

\* the step plans a path from the trolley's cell: a request is accepted, or
\* the return is planned at the end of placing or picking
PathPlanned == response' \in {"STORAGE", "RETRIEVAL", "Moving", "Returning..."}

\* the goal of the path planned by the step
PlannedGoal ==
    CASE response' \in {"STORAGE", "RETRIEVAL"} -> pending_position'
      [] response' = "Returning..."             -> Origin
      [] OTHER -> CHOOSE cell \in Cells : RelocationAccepted(cell)

\* C33: on every tick of storing_moving, retrieving_moving, returning or
\* goto_pcode with a non-empty path the trolley moves to a cell of the grid
\* one step up, down, left or right of the cell it was on, and the path gets
\* shorter by exactly one cell; a path planned from the trolley's cell to a
\* different goal does not contain the start and ends with the goal.
C33_TicksStepAlongPath ==
    [][/\ (Animate /\ operation_mode \in MovingPhases /\ trolley_path # << >>) =>
             /\ <<trolley_row', trolley_col'>> \in Cells
             /\ heuristic(<<trolley_row, trolley_col>>,
                          <<trolley_row', trolley_col'>>) = 1
             /\ Len(trolley_path') = Len(trolley_path) - 1
       /\ (PathPlanned /\ PlannedGoal # <<trolley_row, trolley_col>>) =>
             /\ trolley_path' # << >>
             /\ trolley_path'[Len(trolley_path')] = PlannedGoal
             /\ \A i \in 1 .. Len(trolley_path') :
                   trolley_path'[i] # <<trolley_row, trolley_col>>]_vars

\* a return under way: the first tick of returning has moved the trolley
\* and cells of the return path remain
C33_Witness ==
    /\ operation_mode = "returning"
    /\ Len(legs) = 2
    /\ trolley_path # << >>
    /\ Len(trolley_path) = legs[2] - 1
    /\ rack.box_order # << >>


\* the operation that is returning: a store has just put its box on the
\* anchor pending_position, a retrieval has just emptied it
ReturningKind ==
    IF rack.grid[pending_position] # None THEN "STORED" ELSE "RETRIEVED"

\* the box the returning operation has placed or removed
ReturningBox ==
    IF rack.grid[pending_position] # None
    THEN rack.grid[pending_position]
    ELSE retrieving_box_id

\* C34: log_operation is called only on the tick that takes the phase from
\* returning to idle, and every such tick of a store or a retrieval calls it
\* once, with the kind of the operation that completes (STORED / RETRIEVED)
\* and the identifier of the box this operation has placed or removed; also
\* when an earlier operation was ended by an exception.
C34_LogMatchesOperation ==
    [][/\ logged' # << >> =>
             /\ operation_mode = "returning"
             /\ operation_mode' = "idle"
             /\ Len(logged') = 1
             /\ logged'[1].operation = ReturningKind
             /\ logged'[1].box_id = ReturningBox
       /\ (operation_mode = "returning" /\ response' \in {"stored", "retrieved"}) =>
             logged' # << >>]_vars


\* the step is the tick that follows the last marking tick: the rack is
\* mutated and the return is planned (or the tick raises after that)
BoundaryTick == response' \in {"Returning...", "Animation Error"}

\* C35: on the tick that ends placing, can_place_box is true for the pending
\* box at the pending position and place_box puts the box there under the
\* next identifier; on the tick that ends picking, the identifier to retrieve
\* is stored at the position recorded when the request was accepted and
\* remove_box takes it out.
C35_BoundaryMutationSucceeds ==
    [][/\ (EndsPlacing /\ BoundaryTick) =>
             /\ can_place_box(rack, pending_box[1],
                              pending_position[1], pending_position[2])
             /\ rack.next_box_id \in DOMAIN rack'.boxes
             /\ rack'.box_positions[rack.next_box_id] = pending_position
             /\ rack'.grid[pending_position] = rack.next_box_id
       /\ (EndsPicking /\ BoundaryTick) =>
             /\ retrieving_box_id \in DOMAIN rack.boxes
             /\ rack.box_positions[retrieving_box_id] = pending_position
             /\ retrieving_box_id \notin DOMAIN rack'.boxes
             /\ rack'.grid[pending_position] = None]_vars

\* a second box has been placed and the trolley returns from it
C35_Witness ==
    /\ operation_mode = "returning"
    /\ response = "Returning..."
    /\ pending_box # << >>
    /\ pending_box[1].box_id = 2
    /\ 2 \in DOMAIN rack.boxes
    /\ Len(rack.box_order) = 2


\* the step finishes a store or a retrieval: the finalization of the
\* returning branch has shown its message
OperationFinishes == response' \in {"stored", "retrieved"}

\* the step leaves the trolley in the idle phase on a cell other than the
\* origin
IdleOffOrigin ==
    /\ operation_mode' = "idle"
    /\ <<trolley_row', trolley_col'>> # Origin

\* the trolley was idle and stays on its cell
StaysInIdle ==
    /\ operation_mode = "idle"
    /\ <<trolley_row', trolley_col'>> = <<trolley_row, trolley_col>>

\* C36 as stated: when a store or a retrieval finishes the trolley is on the
\* origin cell, and the trolley comes to be off the origin in the idle phase
\* only by the last tick of a relocation.
C36_OffOriginOnlyByRelocation ==
    [][/\ OperationFinishes => <<trolley_row', trolley_col'>> = Origin
       /\ IdleOffOrigin => \/ StaysInIdle
                           \/ operation_mode = "goto_pcode"]_vars

\* C36: when a store or a retrieval finishes the trolley is on the origin
\* cell, and the trolley comes to be off the origin in the idle phase only by
\* the last tick of a relocation or by a tick of an operation in flight that
\* raised an exception.
C36_OffOriginByRelocationOrFault ==
    [][/\ OperationFinishes => <<trolley_row', trolley_col'>> = Origin
       /\ IdleOffOrigin => \/ StaysInIdle
                           \/ operation_mode = "goto_pcode"
                           \/ TickFaulted]_vars

\* a store ended by an exception on its way out: the trolley is idle off the
\* origin and no relocation was made
C36_Witness ==
    /\ operation_mode = "idle"
    /\ response = "Animation Error"
    /\ <<trolley_row, trolley_col>> # Origin
    /\ pending_box # << >>
    /\ rack.box_order = << >>


C38_OrderIncreasing ==
    /\ \A i \in 1 .. Len(rack.box_order), j \in 1 .. Len(rack.box_order) :
          i < j => rack.box_order[i] < rack.box_order[j]
    /\ \A id \in DOMAIN rack.boxes \cup OrderIds(rack) :
          1 <= id /\ id < rack.next_box_id
    /\ rack.box_order # << >> =>
          /\ get_lifo_box(rack) = Max(DOMAIN rack.boxes)
          /\ get_fifo_box(rack) = Min(DOMAIN rack.boxes)

\* boxes 1 and 3 are stored after box 2 was removed
C38_Witness ==
    /\ rack.box_order = <<1, 3>>
    /\ DOMAIN rack.boxes = {1, 3}
    /\ rack.next_box_id = 4
    /\ result.call = "place_box"


C40_PcodeInvertsLabel ==
    /\ (result.call = "pcode_to_cell" /\ result.arg.body # << >>) =>
          LET n == result.arg.body[1]
          IN  /\ (1 <= n /\ n <= GRID_ROWS * GRID_COLS) =>
                    /\ result.ret = <<(n - 1) \div GRID_COLS, (n - 1) % GRID_COLS>>
                    /\ result.ret \in Cells
                    /\ linear_idx(result.ret[1], result.ret[2]) = n
              /\ (n <= 0 \/ n > GRID_ROWS * GRID_COLS) => result.ret = << >>
    /\ \A cell \in Cells :
          pcode_to_cell(PlainText(linear_idx(cell[1], cell[2]))) = cell

\* the last code of the grid, typed with the prefix in capitals, is
\* converted to the last cell
C40_Witness ==
    /\ result.call = "pcode_to_cell"
    /\ result.arg = [prefix |-> "PCODE-", body |-> <<GRID_ROWS * GRID_COLS>>]
    /\ result.ret = <<GRID_ROWS - 1, GRID_COLS - 1>>

=============================================================================
